---- MODULE Spec2Model ----
(***************************************************************************)
(* Model of the teamwater-data donation collectors.                        *)
(*                                                                         *)
(*   collecter.py        DonationMonitor          (continuous mode)        *)
(*   github_collector.py GitHubDonationCollector  (single-shot mode)       *)
(*                                                                         *)
(* Both objects keep an in-memory set of known donation ids and rewrite    *)
(* two JSON files, donations.json (the ledger) and total_raised.json (the  *)
(* series of total-raised samples).  One process runs at a time; a process *)
(* is created (the constructor loads the known ids), runs cycles and       *)
(* exits, after which another process may be started on the same files.    *)
(*                                                                         *)
(* Encoding of Python values                                               *)
(*   id            0 is a missing / None / falsy id, 1..MaxId a real id    *)
(*   completed_at  0 is None (key missing upstream), 1..MaxTime a          *)
(*                 timestamp string, ordered as the strings are            *)
(*   recorded_at   0 when the record has no such key (collecter.py),       *)
(*                 otherwise the clock reading at ingestion                *)
(*   last_total    NoTotal is None                                         *)
(*   a JSON file   [state, data]: absent, corrupt (not valid JSON: empty   *)
(*                 or cut short), unreadable (open or read raises an       *)
(*                 error other than FileNotFoundError) or ok;              *)
(*                 json.dump followed by json.load returns the same ints,  *)
(*                 strings and None values, so data is stored as written   *)
(***************************************************************************)
EXTENDS Integers, Sequences, FiniteSets, TLC

\* ------------------------------------------------------------------ bounds
MaxId == 2
MaxTime == 2
MaxBatch == 2
MaxAmount == 1
MaxSamples == 2
MaxClock == 2
MaxOver == 2
MaxWork == 2

\* ------------------------------------------------------- program constants
max_consecutive_errors == 5
RetentionCap == 100
interval == 1
CooldownSleep == 5

NoId == 0
NoTime == 0
NoTotal == 0 - 1

Ids == 1..MaxId
Times == 1..MaxTime
Clock == 1..MaxClock

VARIABLES
    mode,                \* "none", "monitor" or "collector": the running process
    donations_file,      \* donations.json
    total_raised_file,   \* total_raised.json
    known_donation_ids,  \* self.known_donation_ids
    last_total,          \* self.last_total (DonationMonitor)
    consecutive_errors,  \* local of DonationMonitor.monitor
    now,                 \* last wall-clock reading
    last,                \* what the last operation did (history)
    errStreak,           \* cycles in a row that ended in an exception, no pause since
    failStreak,          \* cycles in a row whose two fetches both failed, no pause since
    prevBatch            \* batch of the last direct ingestion call (history)

vars == <<mode, donations_file, total_raised_file, known_donation_ids, last_total,
          consecutive_errors, now, last, errStreak, failStreak, prevBatch>>

\* ------------------------------------------------------------ JSON files
AbsentFile == [state |-> "absent", data |-> <<>>]
CorruptFile == [state |-> "corrupt", data |-> <<>>]
UnreadableFile == [state |-> "unreadable", data |-> <<>>]
OkFile(d) == [state |-> "ok", data |-> d]

\* os.path.exists + json.load, with JSONDecodeError soft-failed to []
LoadJson(f) == IF f.state = "ok" THEN f.data ELSE <<>>

\* except (json.JSONDecodeError, FileNotFoundError): any other exception of
\* open() or json.load() (PermissionError, IsADirectoryError,
\* UnicodeDecodeError) leaves the method
LoadRaises(f) == f.state = "unreadable"

\* (mutant) the ingestion starts from an empty list whatever the file holds
LoadExistingFresh(f) == <<>>

\* the reload of the ledger at the head of save_new_donations and
\* update_donations
LoadExisting(f) == LoadJson(f)

RECURSIVE SeqIds(_)
SeqIds(s) == IF s = <<>> THEN {} ELSE {s[1].id} \cup SeqIds(Tail(s))

\* load_existing_data: ids of the records of the ledger file
LoadKnownIds(f) == SeqIds(LoadJson(f))

\* ------------------------------------------------------- upstream payloads
\* an element of the donations payload: a JSON object, or anything else
\* (a non-object element, or the keys of an object sent in place of the list)
BadEntry == [bad |-> TRUE, id |-> NoId, completed_at |-> NoTime]
NoIdEntry == [bad |-> FALSE, id |-> NoId, completed_at |-> NoTime]
GoodEntries == [bad : {FALSE}, id : Ids, completed_at : 0..MaxTime] \cup {NoIdEntry}
Entries == GoodEntries \cup {BadEntry}

Batches == UNION {[1..n -> Entries] : n \in 0..MaxBatch}

\* get_donations(): None on RequestException, else the decoded payload; the
\* cycle drivers are run on payloads of at most one element
FailedFetch == [ok |-> FALSE, data |-> <<>>]
DonationFetches ==
    {FailedFetch} \cup {[ok |-> TRUE, data |-> b] : b \in {c \in Batches : Len(c) <= 1}}

\* get_total_raised(): None, {} , an object without total_raised, an object
\* whose total_raised float() rejects, or an object with a numeric total
TotalFetches ==
    {[kind |-> k, v |-> 0] : k \in {"fail", "empty", "nokey", "bad"}}
        \cup {[kind |-> "num", v |-> a] : a \in 1..MaxAmount}

Truthy(d) == d.ok /\ d.data # <<>>
TotalTruthy(t) == t.kind \in {"nokey", "bad", "num"}
FloatRaises(t) == t.kind = "bad"
\* float(total_data.get("total_raised", 0))
TotalAmount(t) == IF t.kind = "num" THEN t.v ELSE 0

\* ------------------------------------------------------------ the ledger
\* existing_donations.sort(key=lambda x: x.get('completed_at', ''), reverse=True)
\* Every stored record has the key completed_at, so the default '' is never
\* used and the key of a record without a timestamp is None.  Comparing None
\* with a string or with None raises TypeError; a list of fewer than two
\* records is sorted without any comparison.
SortRaises(s) == Len(s) >= 2 /\ \E i \in 1..Len(s) : s[i].completed_at = NoTime

\* x goes after every element whose key is not smaller (the sort is stable)
RECURSIVE InsertDesc(_, _)
InsertDesc(s, x) ==
    IF s = <<>> THEN <<x>>
    ELSE IF s[1].completed_at >= x.completed_at
         THEN <<s[1]>> \o InsertDesc(Tail(s), x)
         ELSE <<x>> \o s

RECURSIVE SortFrom(_, _)
SortFrom(s, acc) == IF s = <<>> THEN acc ELSE SortFrom(Tail(s), InsertDesc(acc, s[1]))

SortDesc(s) == SortFrom(s, <<>>)

\* (mutant) a missing completed_at is filled in with the clock reading
DonationRecordStamped(variant, d, t) ==
    [id |-> d.id,
     completed_at |-> IF d.completed_at = NoTime THEN t ELSE d.completed_at,
     recorded_at |-> IF variant = "collector" THEN t ELSE 0]

\* donation_record: recorded_at exists only in github_collector.py
DonationRecord(variant, d, t) ==
    [id |-> d.id, completed_at |-> d.completed_at,
     recorded_at |-> IF variant = "collector" THEN t ELSE 0]

\* (mutant) the known ids are not consulted
IsNewIgnoringKnown(d, kn) == d.id # NoId

\* donation_id and donation_id not in self.known_donation_ids
IsNew(d, kn) == d.id # NoId /\ d.id \notin kn

\* the for loop of save_new_donations / update_donations; donation.get
\* raises AttributeError on an element that is not an object
RECURSIVE IngestLoop(_, _, _, _, _, _)
IngestLoop(variant, batch, existing, newd, kn, t) ==
    IF batch = <<>>
    THEN [raised |-> FALSE, existing |-> existing, new |-> newd, known |-> kn]
    ELSE LET d == batch[1] IN
         IF d.bad
         THEN [raised |-> TRUE, existing |-> existing, new |-> newd, known |-> kn]
         ELSE IF IsNew(d, kn)
              THEN LET r == DonationRecord(variant, d, t) IN
                   IngestLoop(variant, Tail(batch), Append(existing, r),
                              Append(newd, r), kn \cup {d.id}, t)
              ELSE IngestLoop(variant, Tail(batch), existing, newd, kn, t)

\* (mutant) the ledger is written only when new donations were found
MustWriteOnlyNew(variant, newd, existing) == newd # <<>>

\* (mutant) the ledger is sorted and written on every call
MustWriteAlways(variant, newd, existing) == TRUE

\* if new_donations:                            (collecter.py)
\* if new_donations or not existing_donations:  (github_collector.py)
MustWrite(variant, newd, existing) ==
    newd # <<>> \/ (variant = "collector" /\ existing = <<>>)

\* save_new_donations (variant "monitor") and update_donations (variant
\* "collector") on ledger file f, known ids kn, payload batch at time t.
\*   ret     the value returned (FALSE when an exception was raised)
\*   raised  an exception left the method
\*   new     new_donations as far as the loop got
\*   wrote   the ledger file was written
\*   malformed  the loop stopped at an element that is not an object
\*   loadRaised the reload of the ledger file raised
Ingest(variant, f, kn, batch, t) ==
    IF batch = <<>>
    THEN [file |-> f, known |-> kn, ret |-> FALSE, raised |-> FALSE,
          new |-> <<>>, wrote |-> FALSE, malformed |-> FALSE, loadRaised |-> FALSE]
    ELSE IF LoadRaises(f)
    THEN [file |-> f, known |-> kn, ret |-> FALSE, raised |-> TRUE,
          new |-> <<>>, wrote |-> FALSE, malformed |-> FALSE, loadRaised |-> TRUE]
    ELSE LET r == IngestLoop(variant, batch, LoadExisting(f), <<>>, kn, t) IN
         IF r.raised
         THEN [file |-> f, known |-> r.known, ret |-> FALSE, raised |-> TRUE,
               new |-> r.new, wrote |-> FALSE, malformed |-> TRUE,
               loadRaised |-> FALSE]
         ELSE IF MustWrite(variant, r.new, r.existing)
              THEN IF SortRaises(r.existing)
                   THEN [file |-> f, known |-> r.known, ret |-> FALSE,
                         raised |-> TRUE, new |-> r.new, wrote |-> FALSE,
                         malformed |-> FALSE, loadRaised |-> FALSE]
                   ELSE [file |-> OkFile(SortDesc(r.existing)), known |-> r.known,
                         ret |-> TRUE, raised |-> FALSE, new |-> r.new,
                         wrote |-> TRUE, malformed |-> FALSE, loadRaised |-> FALSE]
              ELSE [file |-> f, known |-> r.known, ret |-> FALSE, raised |-> FALSE,
                    new |-> r.new, wrote |-> FALSE, malformed |-> FALSE,
                    loadRaised |-> FALSE]

\* -------------------------------------------------- the total-raised series
\* update_data of save_total_raised_update / update_total_raised;
\* last_updated exists only in github_collector.py
Sample(variant, amount, t) ==
    [amount |-> amount, timestamp |-> t,
     last_updated |-> IF variant = "collector" THEN t ELSE 0]

\* (mutant) updates[:100], the newest samples are the ones dropped
KeepFirst(s, n) == IF Len(s) > n THEN SubSeq(s, 1, n) ELSE s

\* updates[-100:] when len(updates) > 100
KeepLast(s, n) == IF Len(s) > n THEN SubSeq(s, Len(s) - n + 1, Len(s)) ELSE s

\* the series written by save_total_raised_update (no cap) and by
\* update_total_raised (capped)
AppendSample(variant, f, amount, t) ==
    LET updates == Append(LoadJson(f), Sample(variant, amount, t)) IN
    OkFile(IF variant = "collector" THEN KeepLast(updates, RetentionCap) ELSE updates)

\* update_total_raised(total_data) on series file tf at time t
UpdateTotalRaised(tf, tot, t) ==
    IF ~TotalTruthy(tot)
    THEN [tfile |-> tf, ret |-> FALSE, raised |-> FALSE]
    ELSE IF FloatRaises(tot)
         THEN [tfile |-> tf, ret |-> FALSE, raised |-> TRUE]
         ELSE [tfile |-> AppendSample("collector", tf, TotalAmount(tot), t),
               ret |-> TRUE, raised |-> FALSE]

\* ------------------------------------------------------------------ cycles
\* (mutant) the total is sampled whether or not donations were found
SnapshotGateIgnoringDonations(total_truthy, new_donations_found) == total_truthy

\* if total_data and new_donations_found:
SnapshotGate(total_truthy, new_donations_found) ==
    total_truthy /\ new_donations_found

\* (mutant) the fetched total is not compared with last_total
TotalMovedAlways(lt, current_total) == TRUE

\* if self.last_total is None or current_total != self.last_total:
TotalMoved(lt, current_total) == lt = NoTotal \/ current_total # lt

\* (mutant) the total is sampled only after an ingestion that reported changes
TotalStepGated(total_truthy, has_changes) == total_truthy /\ has_changes

\* if total_data:   (run_update; has_changes is not consulted)
TotalStep(total_truthy, has_changes) == total_truthy

NoIngest(f, kn) ==
    [file |-> f, known |-> kn, ret |-> FALSE, raised |-> FALSE, new |-> <<>>,
     wrote |-> FALSE, malformed |-> FALSE, loadRaised |-> FALSE]

\* One pass of the body of the while loop of DonationMonitor.monitor, with
\* the two fetches returning don and tot and the clock reading t.
\*   reset   line 163 was reached (consecutive_errors = 0)
\*   moved   last_total is None or the fetched total differs from it
MonitorCycle(f, tf, kn, lt, ce, don, tot, t) ==
    LET ing == IF Truthy(don) THEN Ingest("monitor", f, kn, don.data, t)
               ELSE NoIngest(f, kn)
        new_donations_found == ing.ret
        reset == Truthy(don) /\ ~ing.raised
        gate == ~ing.raised /\ SnapshotGate(TotalTruthy(tot), new_donations_found)
        floatExc == gate /\ FloatRaises(tot)
        current_total == TotalAmount(tot)
        moved == TotalMoved(lt, current_total)
        append == gate /\ ~floatExc /\ moved
        raised == ing.raised \/ floatExc
        ce1 == IF reset THEN 0 ELSE ce
        paused == raised /\ ce1 + 1 >= max_consecutive_errors
    IN  [file |-> ing.file,
         tfile |-> IF append THEN AppendSample("monitor", tf, current_total, t) ELSE tf,
         known |-> ing.known,
         last_total |-> IF append THEN current_total ELSE lt,
         consecutive_errors |-> IF raised THEN (IF paused THEN 0 ELSE ce1 + 1) ELSE ce1,
         found |-> ing.new # <<>>, changed |-> ing.ret, wrote |-> ing.wrote,
         raised |-> raised, reset |-> reset, appended |-> append,
         moved |-> moved, paused |-> paused]

\* (mutant) the total is fetched and sampled before the cycle gives up
FailedDonationsAfterTotal(f, tf, kn, tot, t) ==
    [file |-> f, tfile |-> UpdateTotalRaised(tf, tot, t).tfile, known |-> kn,
     found |-> FALSE, changed |-> FALSE, wrote |-> FALSE, raised |-> FALSE,
     appended |-> UpdateTotalRaised(tf, tot, t).ret, ok |-> FALSE,
     totalFetched |-> TRUE]

\* else: print("Failed to fetch donations"); return False
FailedDonations(f, tf, kn, tot, t) ==
    [file |-> f, tfile |-> tf, known |-> kn, found |-> FALSE, changed |-> FALSE,
     wrote |-> FALSE, raised |-> FALSE, appended |-> FALSE, ok |-> FALSE,
     totalFetched |-> FALSE]

\* elapsed = time.time() - start_time, in the unit of interval: the time the
\* fetches and the ingestion took, and the cooldown sleep of a cycle that
\* paused, which lies between the two clock readings
Elapsed(work, paused) == work + (IF paused THEN CooldownSleep ELSE 0)

Max(a, b) == IF a > b THEN a ELSE b

\* sleep_time = max(0, interval - elapsed)
SleepTime(elapsed) == Max(0, interval - elapsed)

\* if sleep_time > 0: time.sleep(sleep_time)   else: the warning is printed
Sleeps(sleep_time) == sleep_time > 0

\* GitHubDonationCollector.run_update with the two fetches returning don and
\* tot; ok is the value returned, totalFetched tells whether
\* get_total_raised() was called
RunUpdate(f, tf, kn, don, tot, t) ==
    IF ~Truthy(don)
    THEN FailedDonations(f, tf, kn, tot, t)
    ELSE LET ing == Ingest("collector", f, kn, don.data, t)
             has_changes == ing.ret
             step == ~ing.raised /\ TotalStep(TotalTruthy(tot), has_changes)
             u == IF step THEN UpdateTotalRaised(tf, tot, t)
                  ELSE [tfile |-> tf, ret |-> FALSE, raised |-> FALSE]
         IN  [file |-> ing.file,
              tfile |-> u.tfile,
              known |-> ing.known,
              found |-> ing.new # <<>>, changed |-> ing.ret, wrote |-> ing.wrote,
              raised |-> ing.raised \/ u.raised,
              appended |-> u.ret,
              ok |-> ~ing.raised /\ TotalTruthy(tot) /\ ~u.raised,
              totalFetched |-> ~ing.raised]

\* ------------------------------------------------------------- publishing
\* main() of github_collector.py run as a script on the files f and tf of a
\* fresh clone: the constructor, the two test fetches (test tells what they
\* returned), then run_update(); rc is the exit status of the script
CollectorMain(f, tf, test, don, tot, t) ==
    IF LoadRaises(f) \/ test # "ok"
    THEN [file |-> f, tfile |-> tf, rc |-> 1]
    ELSE LET c == RunUpdate(f, tf, LoadKnownIds(f), don, tot, t) IN
         [file |-> c.file, tfile |-> c.tfile, rc |-> IF c.ok THEN 0 ELSE 1]

\* the commands of update_data() in the order of the code
PublishOrder == <<"clone", "collector", "add", "diff", "commit", "push">>

\* (mutant) the result of a command is not looked at
CommandFailedIgnored(rc) == FALSE

\* if not self.run_command(...): run_command returns True on returncode 0
CommandFailed(rc) == rc # 0

\* the exit status of a command that fails when the scenario says so
Status(failAt, cmd) == IF failAt = cmd THEN 1 ELSE 0

Ran(cmd, rc) == [cmd |-> cmd, rc |-> rc]

\* AutoGitUpdater.update_data() on a repository whose head holds the files f
\* and tf.  failAt names the command that fails for a reason of its own
\* (network, timeout, rejected push), col is the outcome of main() run on
\* the clone, and git diff --staged --quiet exits 1 exactly when the staged
\* files differ from the head.  file and tfile are the head afterwards, ret
\* the value returned, steps the commands run with their exit status.
UpdateData(f, tf, failAt, col) ==
    LET clone == Status(failAt, "clone")
        collector == IF failAt = "collector" THEN 1 ELSE col.rc
        add == Status(failAt, "add")
        diff == IF col.file = f /\ col.tfile = tf THEN 0 ELSE 1
        commit == Status(failAt, "commit")
        push == Status(failAt, "push")
        all == <<Ran("clone", clone), Ran("collector", collector), Ran("add", add),
                 Ran("diff", diff), Ran("commit", commit), Ran("push", push)>>
        Abort(n) == [file |-> f, tfile |-> tf, ret |-> FALSE,
                     steps |-> SubSeq(all, 1, n)]
    IN  IF CommandFailed(clone) THEN Abort(1)
        ELSE IF CommandFailed(collector) THEN Abort(2)
        ELSE IF CommandFailed(add) THEN Abort(3)
        ELSE IF diff = 0
             THEN [file |-> f, tfile |-> tf, ret |-> TRUE, steps |-> SubSeq(all, 1, 4)]
        ELSE IF CommandFailed(commit) THEN Abort(5)
        ELSE IF CommandFailed(push) THEN Abort(6)
        ELSE [file |-> col.file, tfile |-> col.tfile, ret |-> TRUE, steps |-> all]

\* what can happen to one run of update_data(): a command of its own fails,
\* the test fetches of main() fail, or run_update() runs on two payloads
Scenarios ==
    {[failAt |-> a, test |-> "ok", don |-> FailedFetch,
      tot |-> [kind |-> "fail", v |-> 0]] : a \in {"clone", "collector"}}
    \cup {[failAt |-> "none", test |-> x, don |-> FailedFetch,
           tot |-> [kind |-> "fail", v |-> 0]] :
              x \in {"nototal", "nodonations", "badtotal"}}
    \cup [failAt : {"none", "add", "commit", "push"}, test : {"ok"},
          don : DonationFetches, tot : TotalFetches]

\* ----------------------------------------------------------------- history
Min(a, b) == IF a < b THEN a ELSE b

\* the payload names an id that is known already, or names an id twice
RepeatsId(batch, kn) ==
    \E i \in 1..Len(batch) :
        /\ ~batch[i].bad
        /\ batch[i].id # NoId
        /\ \/ batch[i].id \in kn
           \/ \E j \in 1..(i - 1) : ~batch[j].bad /\ batch[j].id = batch[i].id

\* the payload has an entry with an id and without completed_at
LacksTime(batch) ==
    \E i \in 1..Len(batch) :
        ~batch[i].bad /\ batch[i].id # NoId /\ batch[i].completed_at = NoTime

\* what the last operation did:
\*   fetched, totalOk  the two payloads were truthy
\*   found     new_donations was not empty when the ingestion ended
\*   changed   the value the ingestion returned
\*   wrote     the ledger file was written
\*   raised    the operation ended in an exception
\*   malformed the exception came from an element that is not an object
\*   repeated  the payload repeated an id
\*   priorFound  (second ingestion) the first one found new records
\*   reset, paused, errBefore  the error counter in a cycle of monitor()
\*   moved     last_total was None or differed from the fetched total
\*   ok        the value run_update returned
\*   donFailed, totFailed  the fetch returned None (the failure signal)
\*   totalFetched  get_total_raised() was called
\*   loadRaised    reading the ledger file raised
\*   lacking   the payload had an entry with an id and no completed_at
\*   steps     the commands update_data() ran, in order
\*   elapsed, slept, warned  the measured duration of a cycle of monitor(),
\*             the time slept after it, and whether the warning was printed
Quiet(op) ==
    [op |-> op, fetched |-> FALSE, totalOk |-> FALSE, found |-> FALSE,
     changed |-> FALSE, wrote |-> FALSE, raised |-> FALSE, malformed |-> FALSE,
     repeated |-> FALSE, priorFound |-> FALSE, reset |-> FALSE,
     appended |-> FALSE, moved |-> FALSE, paused |-> FALSE, errBefore |-> 0,
     ok |-> FALSE, donFailed |-> FALSE, totFailed |-> FALSE,
     totalFetched |-> FALSE, loadRaised |-> FALSE, lacking |-> FALSE,
     steps |-> <<>>, elapsed |-> 0, slept |-> 0, warned |-> FALSE]

\* ------------------------------------------------------------------- state
\* before any process runs the two files are absent, or the ledger file is
\* left over from an interrupted write
Init ==
    /\ mode = "none"
    /\ donations_file \in {AbsentFile, CorruptFile}
    /\ total_raised_file = AbsentFile
    /\ known_donation_ids = {}
    /\ last_total = NoTotal
    /\ consecutive_errors = 0
    /\ now = 1
    /\ last = Quiet("init")
    /\ errStreak = 0
    /\ failStreak = 0
    /\ prevBatch = <<>>

\* __init__ of either class, and for the monitor the entry of monitor(); an
\* exception of load_existing_data leaves the constructor and no process runs
Start(m) ==
    /\ mode = "none"
    /\ mode' = IF LoadRaises(donations_file) THEN "none" ELSE m
    /\ known_donation_ids' = LoadKnownIds(donations_file)
    /\ last_total' = NoTotal
    /\ consecutive_errors' = 0
    /\ last' = [Quiet("start") EXCEPT !.raised = LoadRaises(donations_file),
                                      !.loadRaised = LoadRaises(donations_file)]
    /\ errStreak' = 0
    /\ failStreak' = 0
    /\ prevBatch' = <<>>
    /\ UNCHANGED <<donations_file, total_raised_file, now>>

\* the process ends: KeyboardInterrupt between two cycles of monitor(), or
\* the return of main() of github_collector.py
Stop ==
    /\ mode # "none"
    /\ mode' = "none"
    /\ last' = Quiet("stop")
    /\ errStreak' = 0
    /\ failStreak' = 0
    /\ prevBatch' = <<>>
    /\ UNCHANGED <<donations_file, total_raised_file, known_donation_ids, last_total,
                   consecutive_errors, now>>

\* a call of save_new_donations (monitor) or update_donations (collector)
IngestCall(op, batch, keep) ==
    /\ mode # "none"
    /\ \E r \in {Ingest(mode, donations_file, known_donation_ids, batch, now)} :
       /\ donations_file' = r.file
       /\ known_donation_ids' = r.known
       /\ last' = [Quiet(op) EXCEPT !.fetched = batch # <<>>, !.found = r.new # <<>>,
                                    !.changed = r.ret, !.wrote = r.wrote,
                                    !.raised = r.raised, !.malformed = r.malformed,
                                    !.repeated = RepeatsId(batch, known_donation_ids),
                                    !.loadRaised = r.loadRaised,
                                    !.lacking = LacksTime(batch),
                                    !.priorFound = (op = "second" /\ last.found)]
    /\ prevBatch' = IF keep THEN batch ELSE <<>>
    /\ UNCHANGED <<mode, total_raised_file, last_total, consecutive_errors, errStreak,
                   failStreak, now>>

IngestStep(batch) == IngestCall("ingest", batch, FALSE)

\* a call whose payload is remembered, and the same payload handed to the
\* same method once more
FirstIngest(batch) == IngestCall("first", batch, TRUE)

Reingest ==
    /\ last.op = "first"
    /\ IngestCall("second", prevBatch, FALSE)

\* time passes
Tick ==
    /\ now < MaxClock
    /\ now' = now + 1
    /\ last' = Quiet("tick")
    /\ UNCHANGED <<mode, donations_file, total_raised_file, known_donation_ids,
                   last_total, consecutive_errors, errStreak, failStreak, prevBatch>>

\* one pass of the while loop of monitor(): the cycle, whose fetches and
\* ingestion take the time work, and the sleep that follows it
MonitorPass(don, tot, track, work) ==
    /\ mode = "monitor"
    /\ \E c \in {MonitorCycle(donations_file, total_raised_file, known_donation_ids,
                                last_total, consecutive_errors, don, tot, now)} :
       LET bothFailed == ~don.ok /\ tot.kind = "fail"
       IN  /\ Len(c.tfile.data) <= MaxSamples
           /\ donations_file' = c.file
           /\ total_raised_file' = c.tfile
           /\ known_donation_ids' = c.known
           /\ last_total' = c.last_total
           /\ consecutive_errors' = c.consecutive_errors
           /\ last' = [Quiet("monitor") EXCEPT
                           !.fetched = Truthy(don), !.totalOk = TotalTruthy(tot),
                           !.found = c.found, !.changed = c.changed, !.wrote = c.wrote,
                           !.raised = c.raised, !.reset = c.reset,
                           !.appended = c.appended, !.moved = c.moved,
                           !.paused = c.paused, !.errBefore = consecutive_errors,
                           !.elapsed = Elapsed(work, c.paused),
                           !.slept = IF Sleeps(SleepTime(Elapsed(work, c.paused)))
                                     THEN SleepTime(Elapsed(work, c.paused))
                                     ELSE 0,
                           !.warned = ~Sleeps(SleepTime(Elapsed(work, c.paused)))]
           /\ errStreak' = IF ~track THEN errStreak
                           ELSE IF c.raised /\ ~c.paused
                           THEN Min(errStreak + 1, max_consecutive_errors) ELSE 0
           /\ failStreak' = IF ~track THEN failStreak
                            ELSE IF bothFailed /\ ~c.paused
                            THEN Min(failStreak + 1, max_consecutive_errors) ELSE 0
    /\ UNCHANGED <<mode, prevBatch, now>>

\* a pass whose fetches and ingestion take no measurable time
MonitorStep(don, tot, track) == MonitorPass(don, tot, track, 0)

\* one call of run_update()
RunUpdateStep(don, tot) ==
    /\ mode = "collector"
    /\ \E c \in {RunUpdate(donations_file, total_raised_file, known_donation_ids,
                             don, tot, now)} :
           /\ Len(c.tfile.data) <= MaxSamples
           /\ donations_file' = c.file
           /\ total_raised_file' = c.tfile
           /\ known_donation_ids' = c.known
           /\ last' = [Quiet("run_update") EXCEPT
                           !.fetched = Truthy(don), !.totalOk = TotalTruthy(tot),
                           !.found = c.found, !.changed = c.changed, !.wrote = c.wrote,
                           !.raised = c.raised, !.appended = c.appended, !.ok = c.ok,
                           !.donFailed = ~don.ok, !.totFailed = (tot.kind = "fail"),
                           !.totalFetched = c.totalFetched]
    /\ UNCHANGED <<mode, last_total, consecutive_errors, errStreak, failStreak, prevBatch,
                   now>>

\* a call of update_total_raised(), once per behaviour
UpdateTotalStep(tot) ==
    /\ mode = "collector"
    /\ last.op = "init"
    /\ \E u \in {UpdateTotalRaised(total_raised_file, tot, now)} :
       /\ total_raised_file' = u.tfile
       /\ last' = [Quiet("update_total") EXCEPT !.totalOk = TotalTruthy(tot),
                                                !.raised = u.raised,
                                                !.appended = u.ret, !.ok = u.ret]
    /\ UNCHANGED <<mode, donations_file, known_donation_ids, last_total,
                   consecutive_errors, errStreak, failStreak, prevBatch, now>>

\* with open(path, 'w') as f: json.dump(data, f, indent=2), cut short:
\* open() has emptied the file, and none, a part or all of the text reached
\* it before the process stopped
TornWrite(data) == {CorruptFile, OkFile(data)}

\* an ingestion that would have written the ledger is interrupted and the
\* process ends (KeyboardInterrupt in monitor(), which `except Exception`
\* does not catch, or a kill of either process): after the loop and before
\* the write (point "loop"), or inside the write (point "write")
InterruptedIngest(batch, point) ==
    /\ mode # "none"
    /\ \E r \in {Ingest(mode, donations_file, known_donation_ids, batch, now)} :
       /\ r.wrote
       /\ donations_file' \in IF point = "write" THEN TornWrite(r.file.data)
                                                 ELSE {donations_file}
       /\ known_donation_ids' = r.known
       /\ last' = [Quiet("interrupt") EXCEPT !.fetched = TRUE,
                                             !.found = r.new # <<>>]
    /\ mode' = "none"
    /\ prevBatch' = <<>>
    /\ UNCHANGED <<total_raised_file, last_total, consecutive_errors, errStreak,
                   failStreak, now>>

\* save_total_raised_update / update_total_raised interrupted inside its
\* write, and the process ends
InterruptedSample(tot) ==
    /\ mode # "none"
    /\ tot.kind = "num"
    /\ \E f \in {AppendSample(mode, total_raised_file, TotalAmount(tot), now)} :
       /\ Len(f.data) <= MaxSamples
       /\ total_raised_file' \in TornWrite(f.data)
    /\ last' = [Quiet("interrupt") EXCEPT !.totalOk = TRUE]
    /\ mode' = "none"
    /\ prevBatch' = <<>>
    /\ UNCHANGED <<donations_file, known_donation_ids, last_total, consecutive_errors,
                   errStreak, failStreak, now>>

\* one run of update_data(); the two files are those of the head of the
\* repository, and the collector is a process of its own that has ended
\* when update_data() returns
UpdateDataStep(sc) ==
    /\ mode = "none"
    /\ \E col \in {CollectorMain(donations_file, total_raised_file, sc.test, sc.don,
                                  sc.tot, now)} :
       \E u \in {UpdateData(donations_file, total_raised_file, sc.failAt, col)} :
       /\ Len(u.tfile.data) <= MaxSamples
       /\ donations_file' = u.file
       /\ total_raised_file' = u.tfile
       /\ last' = [Quiet("update_data") EXCEPT !.ok = u.ret, !.steps = u.steps]
    /\ UNCHANGED <<mode, known_donation_ids, last_total, consecutive_errors, errStreak,
                   failStreak, prevBatch, now>>

\* a series of n samples written earlier, oldest first
PriorSeries(n) ==
    [i \in 1..n |-> [amount |-> i % (MaxAmount + 1), timestamp |-> i - n - 1,
                     last_updated |-> i - n - 1]]

\* a collector process facing a total-raised file of any length up to
\* MaxOver samples above the cap (collecter.py writes the same file uncapped)
InitCap ==
    /\ mode = "collector"
    /\ donations_file = AbsentFile
    /\ total_raised_file \in {AbsentFile, CorruptFile}
            \cup {OkFile(PriorSeries(n)) : n \in 0..(RetentionCap + MaxOver)}
    /\ known_donation_ids = {}
    /\ last_total = NoTotal
    /\ consecutive_errors = 0
    /\ now = 1
    /\ last = Quiet("init")
    /\ errStreak = 0
    /\ failStreak = 0
    /\ prevBatch = <<>>

\* a process, or none, facing a ledger file that is absent, cut short or
\* unreadable (a running process was started while the file was absent)
InitLoad ==
    /\ mode \in {"none", "monitor", "collector"}
    /\ donations_file \in {AbsentFile, CorruptFile, UnreadableFile}
    /\ total_raised_file = AbsentFile
    /\ known_donation_ids = {}
    /\ last_total = NoTotal
    /\ consecutive_errors = 0
    /\ now = 1
    /\ last = Quiet("init")
    /\ errStreak = 0
    /\ failStreak = 0
    /\ prevBatch = <<>>

\* ---------------------------------------------------------- specifications
\* the ledger: processes of either kind started one after the other on the
\* same files, each ingesting any number of payloads
Next ==
    \/ \E m \in {"monitor", "collector"} : Start(m)
    \/ Stop
    \/ Tick
    \/ \E b \in Batches : IngestStep(b)

Spec == Init /\ [][Next]_vars

\* the ledger, with a payload ingested twice in a row
NextTwice ==
    \/ \E m \in {"monitor", "collector"} : Start(m)
    \/ Stop
    \/ \E b \in Batches : FirstIngest(b)
    \/ Reingest

SpecTwice == Init /\ [][NextTwice]_vars

\* continuous mode: monitor() run cycle after cycle, restarted at will
NextMonitor ==
    \/ Start("monitor")
    \/ Stop
    \/ Tick
    \/ \E don \in DonationFetches, tot \in TotalFetches : MonitorStep(don, tot, FALSE)

SpecMonitor == Init /\ [][NextMonitor]_vars

\* continuous mode, with cycles of every duration up to MaxWork
NextSleep ==
    \/ Start("monitor")
    \/ Stop
    \/ \E don \in DonationFetches, tot \in TotalFetches, work \in 0..MaxWork :
           MonitorPass(don, tot, FALSE, work)

SpecSleep == Init /\ [][NextSleep]_vars

\* continuous mode, with the runs of failing cycles counted
NextBackoff ==
    \/ Start("monitor")
    \/ Stop
    \/ \E don \in DonationFetches, tot \in TotalFetches : MonitorStep(don, tot, TRUE)

SpecBackoff == Init /\ [][NextBackoff]_vars

\* single-shot mode: one process per run_update()
NextCollector ==
    \/ Start("collector")
    \/ Stop
    \/ Tick
    \/ \E don \in DonationFetches, tot \in TotalFetches : RunUpdateStep(don, tot)

SpecCollector == Init /\ [][NextCollector]_vars

\* the ledger file found absent, cut short or unreadable
NextLoad ==
    \/ \E m \in {"monitor", "collector"} : Start(m)
    \/ Stop
    \/ \E b \in Batches : IngestStep(b)

SpecLoad == InitLoad /\ [][NextLoad]_vars

\* processes of either kind that may be interrupted inside an ingestion or
\* inside the write of a sample
NextInterrupt ==
    \/ \E m \in {"monitor", "collector"} : Start(m)
    \/ Stop
    \/ \E b \in Batches : IngestStep(b)
    \/ \E b \in Batches, point \in {"loop", "write"} : InterruptedIngest(b, point)
    \/ \E tot \in TotalFetches : InterruptedSample(tot)

SpecInterrupt == Init /\ [][NextInterrupt]_vars

\* the scheduled publisher: update_data() run again and again
NextUpdater ==
    \/ Tick
    \/ \E sc \in Scenarios : UpdateDataStep(sc)

SpecUpdater == Init /\ [][NextUpdater]_vars

\* update_total_raised() on series of every length around the cap
NextCap == \E tot \in TotalFetches : UpdateTotalStep(tot)

SpecCap == InitCap /\ [][NextCap]_vars

\* ------------------------------------------------------------------ claims
Ledger == LoadJson(donations_file)
Series == LoadJson(total_raised_file)

\* C1  No duplicates: whatever payloads are ingested, by either method and
\* with ids repeated within a payload or across payloads, the persisted
\* ledger never holds two records with the same id.
NoDuplicateIds ==
    \A i, j \in 1..Len(Ledger) : i # j => Ledger[i].id # Ledger[j].id

\* a payload that repeated an id was ingested, found a new record as well,
\* and the ledger holds two records
NoDuplicateIdsWitness ==
    /\ last.op = "ingest"
    /\ last.repeated
    /\ last.found
    /\ last.wrote
    /\ Len(Ledger) = 2

\* C2  Known-id cache equality: while a process runs, after every ingestion
\* the known-id set is exactly the set of ids of the persisted ledger, also
\* after an ingestion that ended in an exception.
KnownIdsEqualLedgerIds ==
    mode # "none" => known_donation_ids = SeqIds(Ledger)

\* C4  Ordering: after an ingestion that found a new record in a well-formed
\* payload, the ledger has been persisted and is sorted descending by
\* completed_at, a missing completed_at counting as the empty string (last).
SortedDescMissingLast(s) ==
    \A i, j \in 1..Len(s) : i < j => s[i].completed_at >= s[j].completed_at

OrderedAfterIngest ==
    (last.op = "ingest" /\ last.found /\ ~last.malformed)
        => (last.wrote /\ SortedDescMissingLast(Ledger))

SnapshotGated ==
    [][LoadJson(total_raised_file') # Series
         => LET new == LoadJson(total_raised_file') IN
            /\ new # <<>>
            /\ last'.op = "monitor"
            /\ last'.changed
            /\ SeqIds(LoadJson(donations_file')) # SeqIds(Ledger)
            /\ new = Append(Series, new[Len(new)])
            /\ (last_total = NoTotal \/ new[Len(new)].amount # last_total)
            /\ last_total' = new[Len(new)].amount]_vars

\* a cycle appended a second sample to the series
SnapshotGatedWitness ==
    /\ last.op = "monitor"
    /\ last.appended
    /\ last.changed
    /\ Len(Series) = 2
    /\ Series[1].amount # Series[2].amount

RetentionCapKept ==
    [][(last'.op = "update_total" /\ last'.appended)
         => LET new == LoadJson(total_raised_file')
                all == Append(Series, new[Len(new)]) IN
            /\ Len(new) = Min(Len(all), RetentionCap)
            /\ new[Len(new)].timestamp = now
            /\ \A k \in 1..Len(new) : new[k] = all[Len(all) - Len(new) + k]]_vars

\* a series above the cap was cut to 100 samples, the oldest ones dropped
RetentionCapWitness ==
    /\ last.op = "update_total"
    /\ last.appended
    /\ Len(Series) = RetentionCap
    /\ Series[1].timestamp = 1 - RetentionCap
    /\ Series[RetentionCap].timestamp = now

\* C8  Consecutive-error backoff: cycles that end in an exception are
\* counted, so five such cycles in a row never pass without the cooldown
\* pause, and the pause leaves the counter at 0.
PauseWithinFiveErrors ==
    /\ errStreak < max_consecutive_errors
    /\ last.paused => consecutive_errors = 0

\* C9  Five cycles in a row whose fetches fail never pass without the
\* cooldown pause.
PauseWithinFiveFailedFetches ==
    failStreak < max_consecutive_errors

\* C10  After a cycle that completes without an exception the counter is 0;
\* a cycle that ends in an exception without pausing does not leave the
\* counter lower than it was when the cycle started.
SuccessResetsCounter ==
    /\ (last.op = "monitor" /\ ~last.raised) => consecutive_errors = 0
    /\ (last.op = "monitor" /\ last.raised /\ ~last.paused)
           => consecutive_errors >= last.errBefore

\* C11  Single-shot failure on the donations fetch: when get_donations()
\* returns the failure signal, run_update() returns False, does not call
\* get_total_raised() and leaves the ledger file, the total-raised file and
\* the known ids as they were.
FailedDonationsFetchWritesNothing ==
    [][(last'.op = "run_update" /\ last'.donFailed)
         => /\ ~last'.ok
            /\ ~last'.totalFetched
            /\ donations_file' = donations_file
            /\ total_raised_file' = total_raised_file
            /\ known_donation_ids' = known_donation_ids]_vars

\* the donations fetch failed while the total endpoint would have answered,
\* on files that earlier cycles had written
FailedDonationsFetchWitness ==
    /\ last.op = "run_update"
    /\ last.donFailed
    /\ ~last.totFailed
    /\ ~last.ok
    /\ ~last.appended
    /\ Len(Ledger) >= 1
    /\ Len(Series) >= 1

\* C12  Single-shot result reflects the fetch outcome: run_update() returns
\* False exactly when one of the two fetches returned the failure signal or
\* an exception was raised; with both fetches answered it returns True, also
\* for an empty donation list or a total payload without fields.
RunUpdateFailsOnlyOnFetchFailure ==
    last.op = "run_update"
        => (last.ok <=> (~last.donFailed /\ ~last.totFailed /\ ~last.raised))

\* C17  No partial ingestion on total failure: a run_update() whose
\* donations fetch answered and whose total fetch failed returns False and
\* has not written the ledger file.
TotalFailureLeavesLedger ==
    (last.op = "run_update" /\ ~last.donFailed /\ last.totFailed)
        => (~last.ok /\ ~last.wrote)

\* C13  Soft-fail on load: with the ledger file absent, unreadable or not
\* valid JSON, neither the constructor nor the reload inside an ingestion
\* raises, and the constructor leaves a running process with no known id.
SoftFailOnLoad ==
    [][donations_file.state # "ok"
         => /\ ~last'.loadRaised
            /\ last'.op = "start" => (mode' # "none" /\ known_donation_ids' = {})]_vars

\* C14  Monotonic ledger growth: every record of the persisted ledger is in
\* the persisted ledger, with the same field values, after every later
\* step; an ingestion adds records and neither changes nor removes one.
LedgerOnlyGrows ==
    [][\A i \in 1..Len(Ledger) :
         \E j \in 1..Len(LoadJson(donations_file')) :
             LoadJson(donations_file')[j] = Ledger[i]]_vars

\* an ingestion wrote a new record in front of one recorded earlier
LedgerOnlyGrowsWitness ==
    /\ last.op = "ingest"
    /\ last.found
    /\ last.wrote
    /\ Len(Ledger) = 2
    /\ Ledger[1].recorded_at = now
    /\ Ledger[2].recorded_at \in 1..(now - 1)

MissingFieldsTolerated ==
    (last.op = "ingest" /\ last.lacking /\ last.found /\ ~last.malformed)
        => /\ ~last.raised
           /\ last.wrote
           /\ known_donation_ids \subseteq SeqIds(Ledger)

\* C18  No torn writes: no step, a save that is interrupted included, leaves
\* the ledger file or the total-raised file empty or cut short where the
\* next load or a reader finds it.
NoTornWrites ==
    [][/\ donations_file'.state = "corrupt" => donations_file.state = "corrupt"
       /\ total_raised_file'.state = "corrupt"
             => total_raised_file.state = "corrupt"]_vars

\* C19  Cooperative cancellation: when monitor() is cancelled, every id
\* added to the known ids is in the persisted ledger and neither file has
\* been left cut short; an ingestion or a write that has started is
\* completed before the loop exits.
CancelledAtBoundary ==
    [][(mode = "monitor" /\ mode' = "none")
         => /\ known_donation_ids' \subseteq
                    known_donation_ids \cup SeqIds(LoadJson(donations_file'))
            /\ donations_file'.state = "corrupt" => donations_file.state = "corrupt"
            /\ total_raised_file'.state = "corrupt"
                  => total_raised_file.state = "corrupt"]_vars

\* C20  Publish gating and ordering: update_data() runs its commands in the
\* order clone, collector, add, diff, commit, push and stops at the first
\* that fails; commit runs only after clone, collector and add succeeded
\* and the staged diff was not empty, push only after commit succeeded;
\* when the collector fails nothing is staged, committed or pushed and
\* update_data() returns False; the head of the repository changes only by
\* a push that succeeded.
PublishGated ==
    [][last'.op = "update_data"
         => LET st == last'.steps
                Did(c) == \E i \in 1..Len(st) : st[i].cmd = c IN
            /\ Len(st) \in 1..Len(PublishOrder)
            /\ \A i \in 1..Len(st) : st[i].cmd = PublishOrder[i]
            /\ \A i \in 1..(Len(st) - 1) : st[i].rc = 0 \/ st[i].cmd = "diff"
            /\ Did("commit") => (Did("diff") /\ st[4].rc = 1)
            /\ Did("push") => st[5].rc = 0
            /\ (Did("collector") /\ st[2].rc # 0) => (Len(st) = 2 /\ ~last'.ok)
            /\ last'.ok = (st[Len(st)].rc = 0)
            /\ <<donations_file', total_raised_file'>> # <<donations_file, total_raised_file>>
                  => (Did("push") /\ st[6].rc = 0)]_vars

\* a collector run that failed ended update_data() after two commands, on
\* a repository that an earlier run had published to
PublishGatedWitness ==
    /\ last.op = "update_data"
    /\ Len(last.steps) = 2
    /\ last.steps[2].rc = 1
    /\ ~last.ok
    /\ Len(Ledger) >= 1
    /\ Len(Series) >= 1

\* C21  Drift-corrected sleep: after each cycle monitor() sleeps exactly
\* max(0, interval - elapsed), never a negative time and no time at all when
\* the cycle took longer than the interval, and prints the over-interval
\* warning exactly when the cycle's duration exceeds the interval.
DriftCorrectedSleep ==
    last.op = "monitor"
        => /\ last.slept = Max(0, interval - last.elapsed)
           /\ last.slept >= 0
           /\ last.elapsed > interval => last.slept = 0
           /\ last.warned <=> last.elapsed > interval

\* C22 (as claimed)  Deterministic merge: an ingestion of the same payload
\* on the same ledger file and known ids gives the same outcome (file,
\* new records, returned flag, known ids) at every clock reading.
MergeIgnoresClock ==
    mode # "none"
        => \A b \in Batches :
             \A c \in {Ingest(mode, donations_file, known_donation_ids, b, now)} :
                 \A t \in Clock :
                     Ingest(mode, donations_file, known_donation_ids, b, t) = c

WithoutRecordedAt(s) == [i \in 1..Len(s) |-> [s[i] EXCEPT !.recorded_at = 0]]

\* C22 (amended)  The same ingestion run at two clock readings returns the
\* same flag, raises or not alike, leaves the same known ids and writes the
\* same records in the same order, up to the field recorded_at, which
\* update_donations sets to the time of ingestion in each new record;
\* save_new_donations stores no such field and its outcome is identical.
MergeIgnoresClockButRecordedAt ==
    mode # "none"
        => \A b \in Batches :
             \A c \in {Ingest(mode, donations_file, known_donation_ids, b, now)} :
                 \A t \in Clock :
                     \A a \in {Ingest(mode, donations_file, known_donation_ids, b, t)} :
                         /\ a.ret = c.ret
                         /\ a.raised = c.raised
                         /\ a.wrote = c.wrote
                         /\ a.known = c.known
                         /\ a.file.state = c.file.state
                         /\ WithoutRecordedAt(a.file.data) = WithoutRecordedAt(c.file.data)
                         /\ WithoutRecordedAt(a.new) = WithoutRecordedAt(c.new)
                         /\ \A i \in 1..Len(a.new) :
                                a.new[i].recorded_at = (IF mode = "collector" THEN t ELSE 0)
                         /\ mode = "monitor" => a = c

\* update_donations has stored a record whose recorded_at is a clock
\* reading that an earlier run of the same ingestion would not have seen
MergeIgnoresClockWitness ==
    /\ mode = "collector"
    /\ last.op = "ingest"
    /\ last.found
    /\ last.wrote
    /\ now = MaxClock
    /\ Len(Ledger) = 1
    /\ Ledger[1].recorded_at = now

\* C23  In continuous mode last_total changes only when the constructor
\* unsets it or when a cycle appends a sample, and then equals the amount of
\* that sample, which differs from the value it had; so while the process
\* runs last_total is unset or the amount of the last sample of the series,
\* and two samples appended one after the other by one run differ in amount.
LastTotalIsLastSample ==
    [][LET new == LoadJson(total_raised_file')
           appends == last'.op = "monitor" /\ last'.appended IN
       /\ last_total' # last_total
             => \/ last'.op = "start" /\ last_total' = NoTotal
                \/ appends
       /\ appends => /\ new # <<>>
                      /\ new = Append(Series, new[Len(new)])
                      /\ last_total' = new[Len(new)].amount
                      /\ last_total' # last_total
       /\ (mode' = "monitor" /\ last_total' # NoTotal)
             => (new # <<>> /\ new[Len(new)].amount = last_total')]_vars

\* a cycle found new donations while the total stood at last_total, and
\* appended no sample
LastTotalIsLastSampleWitness ==
    /\ last.op = "monitor"
    /\ last.changed
    /\ last.totalOk
    /\ ~last.moved
    /\ ~last.appended
    /\ ~last.raised
    /\ Len(Series) >= 1
    /\ last_total = Series[Len(Series)].amount

====
